---- MODULE Spec2Model ----
(***************************************************************************)
(* A model of jira_issue_md_agent: the paginated search of JiraClient, the *)
(* fetch orchestration of IssueFetcher, the collision-safe writer          *)
(* MarkdownWriter and the `fetch` command of cli.py.                       *)
(*                                                                         *)
(* Strings are sequences of one-character strings, so that slugs, file     *)
(* names and version suffixes are computed the way the code computes them. *)
(* An Optional[int] is a record [some, v].                                 *)
(***************************************************************************)
EXTENDS Integers, Sequences, FiniteSets, TLC

VARIABLES
    pc,                  \* where the running call stands
    stack,               \* the labels the running calls return to
    files,               \* the output directory: path -> content
    files0,              \* the output directory as the run found it
    overwrite,           \* MarkdownWriter.overwrite
    issues_with_content, \* write_batch's argument
    wb_i,                \* write_batch: the pair the for loop stands at
    written_paths,       \* write_batch's result list
    wlog,                \* every write attempt so far, in order
    server_issues,       \* the raw issues the JQL query matches, in result order
    server_mode,         \* how the search endpoint answers: "honest" or "any"
    batch_size,          \* search_all_issues: batch_size
    limit,               \* search_all_issues: limit (an Optional[int])
    all_issues,          \* search_all_issues: the accumulated list
    start_at,            \* search_all_issues: the offset of the next page
    requests,            \* every page request sent so far: [max_results, start_at]
    sa_calls,            \* how many times search_all_issues was entered
    issues_data,         \* what search_all_issues returned
    fb_i,                \* fetch_batch: the raw item the for loop stands at
    normalized_issues,   \* fetch_batch's result list
    entry,               \* the operation the run called
    exc,                 \* the exception last raised, "none" if none
    opts,                \* the options of the fetch command
    matches,             \* _parse_issue_file: what re.findall returned
    issue_keys,          \* fetch --file: the deduplicated keys
    fk_i,                \* fetch --file: the key the for loop stands at
    issues,              \* fetch: the records to render and write
    fetch_log,           \* every fetch_single call so far: [key, ok, error]
    file_read,           \* fetch --file: whether _parse_issue_file has returned
    exit_code,           \* the status the command ended with (an Optional[int])
    sl_issue,            \* _get_file_path, _slugify: the issue whose summary is slugified
    sl_slug,             \* _slugify: what the call returned
    sl_path,             \* _get_file_path: what the call returned
    sl_again,            \* _slugify: what the call on sl_slug returned
    nz_issue_data,       \* normalize: the raw payload
    nz_result,           \* normalize: the record returned, or the exception raised
    adf_input,           \* _parse_adf: the document tree
    adf_output           \* _parse_adf: the text returned

ctlVars == <<pc, stack, entry, exc>>
searchVars == <<server_issues, server_mode, batch_size, limit, all_issues, start_at,
                requests, sa_calls, issues_data, fb_i, normalized_issues>>
writerVars == <<files, files0, overwrite, issues_with_content, wb_i, written_paths, wlog>>
cliVars == <<opts, matches, issue_keys, fk_i, issues, fetch_log, file_read, exit_code>>
pureVars == <<sl_issue, sl_slug, sl_path, sl_again, nz_issue_data, nz_result,
              adf_input, adf_output>>
vars == <<ctlVars, writerVars, searchVars, cliVars, pureVars>>

\* ------------------------------------------------------------------ bounds
\* Write attempts (write calls, write_batch items) in one run of the writer.
MaxWrites == 3
\* Longest list handed to write_batch by the writer's caller.
MaxBatch == 2
\* Most issues a JQL query matches.
MaxTotal == 3
\* Largest batch_size and largest limit a caller passes.
MaxBatchSize == 3
MaxLimit == 3
\* Most issue keys re.findall finds in a file, repetitions counted.
MaxMatches == 3

\* ------------------------------------------------------------- characters
\* Python's str.isspace / the regex class \s.
Whitespace == {" ", "\t", "\n"}
\* writer.py:102, the class [<>:"/\\|?*].
IllegalChars == {"<", ">", ":", "\"", "/", "\\", "|", "?", "*"}
\* writer.py:105, the class [\x00-\x1f\x7f]; "^A" stands for \x01, "^?" for \x7f.
ControlChars == {"^A", "^?", "\t", "\n"}
Hyphen == "-"

Min(a, b) == IF a < b THEN a ELSE b

\* s[:n] of Python for n >= 0.
Prefix(s, n) == SubSeq(s, 1, Min(n, Len(s)))

RECURSIVE LStrip(_, _)
LStrip(s, S) == IF s # <<>> /\ Head(s) \in S THEN LStrip(Tail(s), S) ELSE s

RECURSIVE RStrip(_, _)
RStrip(s, S) ==
    IF s # <<>> /\ s[Len(s)] \in S THEN RStrip(SubSeq(s, 1, Len(s) - 1), S) ELSE s

\* str.strip(chars)
Strip(s, S) == RStrip(LStrip(s, S), S)

\* re.sub(r"[S]+", r, s): every maximal run of characters of S becomes r.
RECURSIVE SubRuns(_, _, _)
SubRuns(s, S, r) ==
    IF s = <<>> THEN <<>>
    ELSE IF Head(s) \in S THEN <<r>> \o SubRuns(LStrip(s, S), S, r)
    ELSE <<Head(s)>> \o SubRuns(Tail(s), S, r)

\* re.sub(r"[S]", "", s)
Remove(s, S) == SelectSeq(s, LAMBDA c : c \notin S)

\* str.rfind(c): the last 0-based index of c in s, -1 when there is none.
RECURSIVE RFind(_, _)
RFind(s, c) ==
    IF s = <<>> THEN -1
    ELSE IF s[Len(s)] = c THEN Len(s) - 1
    ELSE RFind(SubSeq(s, 1, Len(s) - 1), c)

\* str(n) for n >= 0
Digits == <<"0", "1", "2", "3", "4", "5", "6", "7", "8", "9">>
RECURSIVE IntToStr(_)
IntToStr(n) ==
    IF n < 10 THEN <<Digits[n + 1]>>
    ELSE IntToStr(n \div 10) \o <<Digits[(n % 10) + 1]>>

\* --------------------------------------------------------------- writer.py
\* The default of _slugify's max_length parameter.
MaxSlugLength == 50

Untitled == <<"u", "n", "t", "i", "t", "l", "e", "d">>

Truncate_KeepHyphen(slug, max_length) ==
    IF Len(slug) > max_length
    THEN LET truncated == Prefix(slug, max_length)
             last_hyphen == RFind(truncated, Hyphen)
         IN  IF last_hyphen > 0 THEN Prefix(truncated, last_hyphen + 1) ELSE truncated
    ELSE slug

\* MarkdownWriter._slugify, step by step.
Truncate(slug, max_length) ==
    IF Len(slug) > max_length
    THEN LET truncated == Prefix(slug, max_length)
             last_hyphen == RFind(truncated, Hyphen)
         IN  IF last_hyphen > 0 THEN Prefix(truncated, last_hyphen) ELSE truncated
    ELSE slug

Slugify_NoHyphenCollapse(text) ==
    LET s1 == Strip(text, Whitespace)
        s2 == SubRuns(s1, Whitespace, Hyphen)
        s3 == Remove(s2, IllegalChars)
        s4 == Remove(s3, ControlChars)
        s6 == Strip(s4, {Hyphen})
        s7 == Truncate(s6, MaxSlugLength)
    IN  IF s7 = <<>> THEN Untitled ELSE s7

Slugify(text) ==
    LET s1 == Strip(text, Whitespace)
        s2 == SubRuns(s1, Whitespace, Hyphen)
        s3 == Remove(s2, IllegalChars)
        s4 == Remove(s3, ControlChars)
        s5 == SubRuns(s4, {Hyphen}, Hyphen)
        s6 == Strip(s5, {Hyphen})
        s7 == Truncate(s6, MaxSlugLength)
    IN  IF s7 = <<>> THEN Untitled ELSE s7

MdSuffix == <<".", "m", "d">>
OutputDir == "outputs"

GetFilePath_NoProjectDir(issue) ==
    [parent |-> <<OutputDir>>,
     name |-> issue.key \o <<Hyphen>> \o Slugify(issue.summary) \o MdSuffix]

\* A path is its parent directory and its file name.
\* MarkdownWriter._get_file_path
GetFilePath(issue) ==
    [parent |-> <<OutputDir, issue.project_key>>,
     name |-> issue.key \o <<Hyphen>> \o Slugify(issue.summary) \o MdSuffix]

\* Path.stem of a name that ends in ".md"
Stem(path) == SubSeq(path.name, 1, Len(path.name) - Len(MdSuffix))

\* parent / f"{stem}__v{version}{suffix}"
VersionPath(path, version) ==
    [parent |-> path.parent,
     name |-> Stem(path) \o <<"_", "_", "v">> \o IntToStr(version) \o MdSuffix]

\* The first version _get_versioned_path tries.
FirstVersion == 2

\* The loop of _get_versioned_path from `version` on.
RECURSIVE VersionedFrom(_, _, _)
VersionedFrom(fs, path, version) ==
    IF VersionPath(path, version) \notin DOMAIN fs
    THEN VersionPath(path, version)
    ELSE VersionedFrom(fs, path, version + 1)

GetVersionedPath_AlwaysFirst(fs, path) == VersionPath(path, FirstVersion)

GetVersionedPath_StartAtOne(fs, path) == VersionedFrom(fs, path, 1)

\* MarkdownWriter._get_versioned_path
GetVersionedPath(fs, path) == VersionedFrom(fs, path, FirstVersion)

WriteTarget_IgnoreOverwrite(fs, ow, issue) ==
    LET file_path == GetFilePath(issue)
    IN  IF file_path \in DOMAIN fs THEN GetVersionedPath(fs, file_path) ELSE file_path

\* MarkdownWriter.write, lines 36-40: the path the call writes to.
WriteTarget(fs, ow, issue) ==
    LET file_path == GetFilePath(issue)
    IN  IF file_path \in DOMAIN fs /\ ~ow
        THEN GetVersionedPath(fs, file_path)
        ELSE file_path

\* What the filesystem answers to mkdir and write_text: "ok"; "mkdir_fail"
\* (mkdir or the open raises, nothing is created); "write_fail" (the file is
\* opened, so created or truncated, and the write raises).
IoOutcomes == {"ok", "mkdir_fail", "write_fail"}
Truncated == <<>>

\* MarkdownWriter.write, lines 42-46: the filesystem after the call.
WriteEffect(fs, ow, issue, content, io) ==
    LET target == WriteTarget(fs, ow, issue)
    IN  CASE io = "ok" -> (target :> content) @@ fs
          [] io = "write_fail" -> (target :> Truncated) @@ fs
          [] OTHER -> fs

\* One write attempt as the log keeps it.
Attempt(fs, ow, issue, content, io) ==
    [issue |-> issue, content |-> content, io |-> io,
     target |-> WriteTarget(fs, ow, issue)]

\* ----------------------------------------------------------- normalizer.py
\* A JSON value is null, a string or an object; an object is a function from
\* the names it holds to JSON values, so that a name may be absent.
JNull == [t |-> "null"]
JStr(s) == [t |-> "str", v |-> s]
JObj(f) == [t |-> "obj", v |-> f]
EmptyObj == JObj(<<>>)

\* dict.get(name, default)
Get(o, name, default) == IF name \in DOMAIN o.v THEN o.v[name] ELSE default

Contains(s, c) == \E k \in 1..Len(s) : s[k] = c

\* s.split(c)[0]
RECURSIVE SplitFirst(_, _)
SplitFirst(s, c) ==
    IF s = <<>> \/ Head(s) = c THEN <<>> ELSE <<Head(s)>> \o SplitFirst(Tail(s), c)

Str_UNKNOWN == <<"U", "N", "K", "N", "O", "W", "N">>
Str_NoSummary == <<"N", "o", " ", "S", "u", "m", "m", "a", "r", "y">>

Raised(error) == [ok |-> FALSE, error |-> error]

\* A JSON array.
JList(items) == [t |-> "list", v |-> items]

Str_text == <<"t", "e", "x", "t">>
Str_paragraph == <<"p", "a", "r", "a", "g", "r", "a", "p", "h">>
Str_doc == <<"d", "o", "c">>
Newline == <<"\n">>

\* "".join(parts)
RECURSIVE Join(_)
Join(parts) == IF parts = <<>> THEN <<>> ELSE Head(parts) \o Join(Tail(parts))

\* extract_text(node) inside _parse_adf, lines 157-173, as a function from
\* text_parts before the call to text_parts after it; ExtractChildren is the
\* for loop of lines 167-169 from its k-th child on.
RECURSIVE ExtractText(_, _)
RECURSIVE ExtractChildren(_, _, _)
ExtractText(node, text_parts) ==
    LET node_type == Get(node, "type", JStr(<<>>))
        own == IF node_type = JStr(Str_text)
               THEN Append(text_parts, Get(node, "text", JStr(<<>>)).v)
               ELSE text_parts
        content == Get(node, "content", JList(<<>>))
        visited == ExtractChildren(content.v, 1, own)
    IN  IF node_type = JStr(Str_paragraph) /\ visited # <<>>
           /\ visited[Len(visited)] # Newline
        THEN Append(visited, Newline)
        ELSE visited

ExtractChildren(content, k, text_parts) ==
    IF k > Len(content) THEN text_parts
    ELSE ExtractChildren(content, k + 1,
            IF content[k].t = "obj" THEN ExtractText(content[k], text_parts)
            ELSE text_parts)

\* IssueNormalizer._parse_adf
ParseAdf(adf_doc) == Strip(Join(ExtractText(adf_doc, <<>>)), Whitespace)

\* IssueNormalizer._extract_description_text, for a description that is
\* null, a string or an object.
ExtractDescriptionText(description) ==
    CASE description.t = "null" -> <<>>
      [] description.t = "str" -> description.v
      [] description.t = "obj" ->
            IF DOMAIN description.v = {} THEN <<>> ELSE ParseAdf(description)

\* Python's truth value of a JSON value.
JTruthy(x) ==
    CASE x.t = "null" -> FALSE
      [] x.t = "str" -> x.v # <<>>
      [] x.t = "list" -> x.v # <<>>
      [] x.t = "obj" -> DOMAIN x.v # {}

Str_Unknown == <<"U", "n", "k", "n", "o", "w", "n">>
Str_Unassigned == <<"U", "n", "a", "s", "s", "i", "g", "n", "e", "d">>
Str_Task == <<"T", "a", "s", "k">>
Str_None == <<"N", "o", "n", "e">>
Str_browse == <<"/", "b", "r", "o", "w", "s", "e", "/">>

\* settings.jira_base_url, the base_url every call of normalize is given.
BaseUrl == <<"h", ":", "/", "/", "j", "/">>

\* f"{base_url.rstrip('/')}/browse/{key}"
BrowseUrl(base_url, key) == RStrip(base_url, {"/"}) \o Str_browse \o key

\* The positions of the digits and of the separators of YYYY-MM-DDTHH:MM:SS.
IsoLength == 19
IsoSeparators == (5 :> "-") @@ (8 :> "-") @@ (11 :> "T") @@ (14 :> ":") @@ (17 :> ":")

\* datetime.fromisoformat accepts the string (after "Z" became "+00:00"): a
\* date and a time of day, alone or followed by Z.
IsIsoDatetime(dt) ==
    /\ Len(dt) >= IsoLength
    /\ \A k \in 1..IsoLength :
          IF k \in DOMAIN IsoSeparators
          THEN dt[k] = IsoSeparators[k]
          ELSE \E i \in 1..Len(Digits) : dt[k] = Digits[i]
    /\ SubSeq(dt, IsoLength + 1, Len(dt)) \in {<<>>, <<"Z">>}

\* IssueNormalizer._format_datetime, lines 113-120, for null or a string:
\* strftime("%Y-%m-%d %H:%M:%S") of the parsed time, the string itself when
\* it does not parse.
FormatDatetime(dt_string) ==
    IF ~JTruthy(dt_string) THEN JStr(Str_Unknown)
    ELSE IF IsIsoDatetime(dt_string.v)
         THEN JStr(SubSeq(dt_string.v, 1, 10) \o <<" ">> \o SubSeq(dt_string.v, 12, IsoLength))
         ELSE dt_string

\* The links one issue link contributes: lines 192-203.
LinksOf(link, base_url) ==
    LET inward_issue == Get(link, "inwardIssue", JNull)
        outward_issue == Get(link, "outwardIssue", JNull)
        url(linked) ==
            IF JTruthy(linked) /\ JTruthy(Get(linked, "key", JNull))
            THEN <<BrowseUrl(base_url, Get(linked, "key", JNull).v)>>
            ELSE <<>>
    IN  url(inward_issue) \o url(outward_issue)

\* IssueNormalizer._extract_links, for a list of objects.
RECURSIVE ExtractLinks(_, _)
ExtractLinks(issue_links, base_url) ==
    IF issue_links = <<>> THEN <<>>
    ELSE LinksOf(Head(issue_links), base_url) \o ExtractLinks(Tail(issue_links), base_url)

\* lines 46-48: displayName, else emailAddress, else the default; the default
\* for a person that is None or empty.
PersonName(person_obj, default) ==
    IF JTruthy(person_obj)
    THEN Get(person_obj, "displayName", Get(person_obj, "emailAddress", JStr(default)))
    ELSE JStr(default)

\* line 64: the names of the components that have a truthy name.
ComponentNames(components_list) ==
    LET named == SelectSeq(components_list, LAMBDA comp : JTruthy(Get(comp, "name", JNull)))
    IN  [k \in 1..Len(named) |-> Get(named[k], "name", JStr(<<>>)).v]

\* A list[str] as pydantic accepts it.
IsStrList(x) == x.t = "list" /\ \A k \in 1..Len(x.v) : x.v[k].t = "str"

\* IssueNormalizer.normalize with base_url = BaseUrl. A .get on a value that
\* is no object raises AttributeError, `"-" in key` on a key that is no
\* string raises TypeError (the default of project.get is evaluated whatever
\* project holds), a for loop over None raises TypeError, and
\* NormalizedIssue(...) refuses None for a str or list field.
Normalize(issue_data) ==
    LET key == Get(issue_data, "key", JStr(Str_UNKNOWN))
        fields == Get(issue_data, "fields", EmptyObj)
    IN  IF fields.t # "obj" THEN Raised("AttributeError")
        ELSE
        LET summary == Get(fields, "summary", JStr(Str_NoSummary))
            project == Get(fields, "project", EmptyObj)
            issuetype == Get(fields, "issuetype", EmptyObj)
            status_obj == Get(fields, "status", EmptyObj)
            priority_obj == Get(fields, "priority", EmptyObj)
            assignee_obj == Get(fields, "assignee", JNull)
            reporter_obj == Get(fields, "reporter", JNull)
            labels == Get(fields, "labels", JList(<<>>))
            components_list == Get(fields, "components", JList(<<>>))
            created == Get(fields, "created", JStr(<<>>))
            updated == Get(fields, "updated", JStr(<<>>))
            description_raw == Get(fields, "description", JNull)
            issue_links == Get(fields, "issuelinks", JList(<<>>))
        IN  IF project.t # "obj" THEN Raised("AttributeError")
            ELSE IF key.t # "str" THEN Raised("TypeError")
            ELSE IF issuetype.t # "obj" \/ status_obj.t # "obj" THEN Raised("AttributeError")
            ELSE IF components_list.t # "list" \/ issue_links.t # "list"
                 THEN Raised("TypeError")
            ELSE
            LET fallback == IF Contains(key.v, Hyphen)
                            THEN SplitFirst(key.v, Hyphen)
                            ELSE Str_UNKNOWN
                project_key == Get(project, "key", JStr(fallback))
                issue_type == Get(issuetype, "name", JStr(Str_Task))
                status == Get(status_obj, "name", JStr(Str_Unknown))
                priority == IF JTruthy(priority_obj)
                            THEN Get(priority_obj, "name", JStr(Str_None))
                            ELSE JStr(Str_None)
                assignee == PersonName(assignee_obj, Str_Unassigned)
                reporter == PersonName(reporter_obj, Str_Unknown)
                created_at == FormatDatetime(created)
                updated_at == FormatDatetime(updated)
            IN  IF \/ \E x \in {project_key, issue_type, summary, status, priority,
                                 assignee, reporter, created_at, updated_at} : x.t # "str"
                   \/ ~IsStrList(labels)
                THEN Raised("ValidationError")
                ELSE [ok |-> TRUE,
                      issue |-> [key |-> key.v,
                                 url |-> BrowseUrl(BaseUrl, key.v),
                                 project_key |-> project_key.v,
                                 type |-> issue_type.v,
                                 summary |-> summary.v,
                                 status |-> status.v,
                                 priority |-> priority.v,
                                 assignee |-> assignee.v,
                                 reporter |-> reporter.v,
                                 labels |-> [k \in 1..Len(labels.v) |-> labels.v[k].v],
                                 components |-> ComponentNames(components_list.v),
                                 created_at |-> created_at.v,
                                 updated_at |-> updated_at.v,
                                 description_text |-> ExtractDescriptionText(description_raw),
                                 acceptance_criteria |-> <<>>,
                                 dev_notes |-> <<>>,
                                 links |-> ExtractLinks(issue_links.v, BaseUrl)]]

\* ---------------------------------------------------------- jira_client.py
\* Optional[int]
None == [some |-> FALSE, v |-> 0]
Some(n) == [some |-> TRUE, v |-> n]
\* `if limit:` is false for None and for 0.
Truthy(opt) == opt.some /\ opt.v # 0

\* The default of batch_size in search_all_issues and fetch_batch.
DefaultBatchSize == 50
\* The default of the fetch command's --limit.
DefaultLimit == 10

CurrentBatchSize_IgnoreLimit(size, lim, fetched) == size

\* search_all_issues, lines 146-151: the size of the page to ask for.
CurrentBatchSize(size, lim, fetched) ==
    IF Truthy(lim) THEN Min(size, lim.v - fetched) ELSE size

\* search_all_issues, lines 147-150: the limit is already reached.
LimitReached(lim, fetched) == Truthy(lim) /\ lim.v - fetched <= 0

\* search_all_issues, lines 167-173: whether the while loop takes another
\* turn after a non-empty page. Line 173 breaks unconditionally.
LoopsAgain(lim, fetched) == FALSE

\* search_all_issues never assigns start_at after line 142.
NextStartAt(offset, page) == offset

\* The page of q an honest service returns for {maxResults, startAt}.
Page(q, max_results, offset) ==
    SubSeq(q, offset + 1, Min(offset + max_results, Len(q)))

\* What POST /search/jql may answer (lines 93-112, models.py 69-75). An honest
\* service returns the page the request names. Any other service still
\* returns at most maxResults issues, but any run of the matching issues.
\* "total" is read at line 162 and used nowhere, so it is left out.
ServerPages(q, mode, max_results, offset) ==
    IF mode = "honest" THEN {Page(q, max_results, offset)}
    ELSE {Page(q, n, a) : n \in 0..max_results, a \in 0..Len(q)}

\* ------------------------------------------------------ the writer's inputs
Str_A == <<"A">>
KeyA1 == <<"A", "-", "1">>
KeyA2 == <<"A", "-", "2">>
KeyA3 == <<"A", "-", "3">>

IssueA == [key |-> KeyA1, project_key |-> Str_A, summary |-> <<"a", " ", " ", "b">>]
IssueB == [key |-> KeyA2, project_key |-> Str_A, summary |-> <<"?">>]
WriterIssues == {IssueA, IssueB}
\* Contents are opaque to the writer: the n-th write attempt of a run is handed
\* a content of its own, which tells every write apart from every other.
FreshContent(n) == <<"c">> \o IntToStr(n)
OldContent == <<"o", "l", "d">>

\* Files a run may find in the output directory, gaps included.
CandidateFiles ==
    {GetFilePath(IssueA), VersionPath(GetFilePath(IssueA), 2),
     VersionPath(GetFilePath(IssueA), 3)}
InitialFiles == {[p \in D |-> OldContent] : D \in SUBSET CandidateFiles}

\* The pairs of a batch of issues whose first write is attempt n + 1.
PairsOf(batch, n) == [k \in 1..Len(batch) |-> <<batch[k], FreshContent(n + k)>>]
RECURSIVE SeqsUpTo(_, _)
SeqsUpTo(S, n) ==
    IF n = 0 THEN {<<>>}
    ELSE LET shorter == SeqsUpTo(S, n - 1)
         IN  shorter \cup {Append(q, x) : q \in {r \in shorter : Len(r) = n - 1}, x \in S}

\* ------------------------------------------------------- the server's issues
\* RawA names its project; RawB leaves it out and has a summary that slugs to
\* nothing; RawBad has "fields": null, which normalize cannot read.
RawA ==
    JObj([key |-> JStr(KeyA1),
          fields |-> JObj([summary |-> JStr(<<"a", " ", " ", "b">>),
                           project |-> JObj([key |-> JStr(Str_A)])])])
RawB == JObj([key |-> JStr(KeyA2), fields |-> JObj([summary |-> JStr(<<"?">>)])])
RawBad == JObj([key |-> JStr(KeyA3), fields |-> JNull])
RawSamples == {RawA, RawB, RawBad}

\* The limits a caller passes: None, and the integers from -1 to MaxLimit.
Limits == {None} \cup {Some(n) : n \in (0 - 1)..MaxLimit}

\* ------------------------------------------------- the writer, as it is called
\* The writer before any call: MarkdownWriter.__init__ over some directory.
WriterStart ==
    /\ overwrite \in BOOLEAN
    /\ files \in InitialFiles
    /\ files0 = files
    /\ issues_with_content = <<>>
    /\ wb_i = 1
    /\ written_paths = <<>>
    /\ wlog = <<>>

\* No writer is at work: an empty directory, nothing written.
WriterIdle ==
    /\ overwrite = TRUE
    /\ files = <<>>
    /\ files0 = files
    /\ issues_with_content = <<>>
    /\ wb_i = 1
    /\ written_paths = <<>>
    /\ wlog = <<>>

\* No search is under way and none was made.
ClientIdle ==
    /\ batch_size = DefaultBatchSize
    /\ limit = None
    /\ all_issues = <<>>
    /\ start_at = 0
    /\ requests = <<>>
    /\ sa_calls = 0
    /\ issues_data = <<>>
    /\ fb_i = 1
    /\ normalized_issues = <<>>

SearchIdle ==
    /\ server_issues = <<>>
    /\ server_mode = "honest"
    /\ ClientIdle

\* No command is running.
CliIdle ==
    /\ opts = [key |-> <<>>, jql |-> FALSE, file |-> FALSE, limit |-> DefaultLimit,
               no_overwrite |-> FALSE]
    /\ matches = <<>>
    /\ issue_keys = <<>>
    /\ fk_i = 1
    /\ issues = <<>>
    /\ fetch_log = <<>>
    /\ file_read = FALSE
    /\ exit_code = None

\* The path of no file.
NoPath == [parent |-> <<>>, name |-> <<>>]

\* No call of _slugify or _get_file_path was made.
SlugIdle ==
    /\ sl_issue = IssueA
    /\ sl_slug = <<>>
    /\ sl_path = NoPath
    /\ sl_again = <<>>

\* No call of normalize was made.
NormalizerIdle ==
    /\ nz_issue_data = EmptyObj
    /\ nz_result = Raised("none")

\* No call of _parse_adf was made.
AdfIdle ==
    /\ adf_input = EmptyObj
    /\ adf_output = <<>>

PureIdle == SlugIdle /\ NormalizerIdle /\ AdfIdle

WriterInit ==
    /\ pc = "idle"
    /\ stack = <<>>
    /\ entry = "writer"
    /\ exc = "none"
    /\ WriterStart
    /\ SearchIdle
    /\ CliIdle
    /\ PureIdle

\* writer.write(issue, content), called directly: lines 26-49.
CallWrite ==
    /\ pc = "idle"
    /\ Len(wlog) < MaxWrites
    /\ \E issue \in WriterIssues, io \in IoOutcomes :
          LET content == FreshContent(Len(wlog) + 1)
          IN  /\ files' = WriteEffect(files, overwrite, issue, content, io)
              /\ wlog' = Append(wlog, Attempt(files, overwrite, issue, content, io))
    /\ UNCHANGED <<ctlVars, files0, overwrite, issues_with_content, wb_i, written_paths>>
    /\ UNCHANGED <<searchVars, cliVars>>
    /\ UNCHANGED pureVars

\* writer.write_batch(pairs) is entered: line 60.
EnterWriteBatch(pairs, return_to) ==
    /\ issues_with_content' = pairs
    /\ wb_i' = 1
    /\ written_paths' = <<>>
    /\ pc' = "write_batch"
    /\ stack' = return_to \o stack
    /\ UNCHANGED <<files, files0, wlog>>

\* writer.write_batch called directly.
CallWriteBatch ==
    /\ pc = "idle"
    /\ \E batch \in SeqsUpTo(WriterIssues, MaxBatch) :
          /\ Len(wlog) + Len(batch) <= MaxWrites
          /\ EnterWriteBatch(PairsOf(batch, Len(wlog)), <<"idle">>)
    /\ UNCHANGED <<entry, exc, overwrite, searchVars, cliVars>>
    /\ UNCHANGED pureVars

WriteBatchStep_StopAtFailure ==
    /\ pc = "write_batch"
    /\ wb_i <= Len(issues_with_content)
    /\ LET issue == issues_with_content[wb_i][1]
           content == issues_with_content[wb_i][2]
       IN  \E io \in IoOutcomes :
             /\ files' = WriteEffect(files, overwrite, issue, content, io)
             /\ wlog' = Append(wlog, Attempt(files, overwrite, issue, content, io))
             /\ written_paths' =
                   IF io = "ok"
                   THEN Append(written_paths, WriteTarget(files, overwrite, issue))
                   ELSE written_paths
             /\ wb_i' = IF io = "ok" THEN wb_i + 1 ELSE Len(issues_with_content) + 1
    /\ UNCHANGED <<ctlVars, files0, overwrite, issues_with_content>>
    /\ UNCHANGED <<searchVars, cliVars>>
    /\ UNCHANGED pureVars

\* One turn of write_batch's for loop, lines 61-66: the write, and the except
\* clause that swallows its failure.
WriteBatchStep ==
    /\ pc = "write_batch"
    /\ wb_i <= Len(issues_with_content)
    /\ LET issue == issues_with_content[wb_i][1]
           content == issues_with_content[wb_i][2]
       IN  \E io \in IoOutcomes :
             /\ files' = WriteEffect(files, overwrite, issue, content, io)
             /\ wlog' = Append(wlog, Attempt(files, overwrite, issue, content, io))
             /\ written_paths' =
                   IF io = "ok"
                   THEN Append(written_paths, WriteTarget(files, overwrite, issue))
                   ELSE written_paths
    /\ wb_i' = wb_i + 1
    /\ UNCHANGED <<ctlVars, files0, overwrite, issues_with_content>>
    /\ UNCHANGED <<searchVars, cliVars>>
    /\ UNCHANGED pureVars

\* write_batch returns written_paths: line 68.
WriteBatchReturn ==
    /\ pc = "write_batch"
    /\ wb_i > Len(issues_with_content)
    /\ pc' = Head(stack)
    /\ stack' = Tail(stack)
    /\ UNCHANGED <<entry, exc, writerVars, searchVars, cliVars>>
    /\ UNCHANGED pureVars

WriterNext == CallWrite \/ CallWriteBatch \/ WriteBatchStep \/ WriteBatchReturn

SpecWriter == WriterInit /\ [][WriterNext]_vars

\* ------------------------------------- the client and the fetcher, as called
SearchInit ==
    /\ pc = "idle"
    /\ stack = <<>>
    /\ entry = "none"
    /\ exc = "none"
    /\ WriterIdle
    /\ server_issues \in SeqsUpTo(RawSamples, MaxTotal)
    /\ server_mode \in {"honest", "any"}
    /\ ClientIdle
    /\ CliIdle
    /\ PureIdle

\* Where an exception that neither search_all_issues nor fetch_batch catches
\* ends up: with the caller, or in the except clause of the fetch command.
Unwind(stk) == IF stk[Len(stk)] = "done" THEN "raised" ELSE "cli_except"

\* search_all_issues(jql, fields, size, lim) is entered: lines 141-142.
EnterSearchAll(size, lim, return_to) ==
    /\ batch_size' = size
    /\ limit' = lim
    /\ all_issues' = <<>>
    /\ start_at' = 0
    /\ sa_calls' = sa_calls + 1
    /\ pc' = "search_all"
    /\ stack' = return_to \o stack
    /\ UNCHANGED <<server_issues, server_mode, requests, issues_data>>

\* client.search_all_issues called directly.
CallSearchAll ==
    /\ pc = "idle"
    /\ entry = "none"
    /\ entry' = "search_all_issues"
    /\ \E size \in 1..MaxBatchSize, lim \in Limits : EnterSearchAll(size, lim, <<"done">>)
    /\ UNCHANGED <<exc, writerVars, cliVars, fb_i, normalized_issues>>
    /\ UNCHANGED pureVars

\* fetch_batch, lines 69-71: the batch size handed to search_all_issues.
AdjustedBatchSize(size, lim) == IF Truthy(lim) /\ lim.v < size THEN lim.v ELSE size

\* fetcher.fetch_batch(jql, lim, size) is entered and calls search_all_issues:
\* lines 66-73.
EnterFetchBatch(size, lim, return_to) ==
    /\ EnterSearchAll(AdjustedBatchSize(size, lim), lim, <<"fetch_batch">> \o return_to)
    /\ fb_i' = 1
    /\ normalized_issues' = <<>>

CallFetchBatch ==
    /\ pc = "idle"
    /\ entry = "none"
    /\ entry' = "fetch_batch"
    /\ \E size \in 1..MaxBatchSize, lim \in Limits : EnterFetchBatch(size, lim, <<"done">>)
    /\ UNCHANGED <<exc, writerVars, cliVars>>
    /\ UNCHANGED pureVars

\* One turn of the while loop of search_all_issues, lines 144-173, when the
\* request it sends is answered with a page.
SearchAllTurn ==
    /\ pc = "search_all"
    /\ IF LimitReached(limit, Len(all_issues))
       THEN /\ pc' = "search_all_return"
            /\ UNCHANGED <<all_issues, start_at, requests>>
       ELSE LET max_results == CurrentBatchSize(batch_size, limit, Len(all_issues))
            IN  \E page \in ServerPages(server_issues, server_mode, max_results, start_at) :
                  /\ requests' = Append(requests, [max_results |-> max_results,
                                                   start_at |-> start_at])
                  /\ IF page = <<>>
                     THEN /\ pc' = "search_all_return"
                          /\ UNCHANGED <<all_issues, start_at>>
                     ELSE /\ all_issues' = all_issues \o page
                          /\ start_at' = NextStartAt(start_at, page)
                          /\ pc' = IF LoopsAgain(limit, Len(all_issues) + Len(page))
                                   THEN "search_all"
                                   ELSE "search_all_return"
    /\ UNCHANGED <<stack, entry, exc, writerVars, cliVars>>
    /\ UNCHANGED <<server_issues, server_mode, batch_size, limit, sa_calls, issues_data,
                   fb_i, normalized_issues>>
    /\ UNCHANGED pureVars

\* The request of a turn fails: search_issues raises HTTPStatusError (lines
\* 109-118), which search_all_issues and fetch_batch let through.
SearchAllRaise ==
    /\ pc = "search_all"
    /\ ~LimitReached(limit, Len(all_issues))
    /\ requests' = Append(requests,
          [max_results |-> CurrentBatchSize(batch_size, limit, Len(all_issues)),
           start_at |-> start_at])
    /\ exc' = "HTTPStatusError"
    /\ pc' = Unwind(stack)
    /\ stack' = <<>>
    /\ UNCHANGED <<entry, writerVars, cliVars>>
    /\ UNCHANGED <<server_issues, server_mode, batch_size, limit, all_issues, start_at,
                   sa_calls, issues_data, fb_i, normalized_issues>>
    /\ UNCHANGED pureVars

\* search_all_issues returns all_issues: line 175.
SearchAllReturn ==
    /\ pc = "search_all_return"
    /\ issues_data' = all_issues
    /\ pc' = Head(stack)
    /\ stack' = Tail(stack)
    /\ UNCHANGED <<entry, exc, writerVars, cliVars>>
    /\ UNCHANGED <<server_issues, server_mode, batch_size, limit, all_issues, start_at,
                   requests, sa_calls, fb_i, normalized_issues>>
    /\ UNCHANGED pureVars

FetchBatchStep_NoExcept ==
    /\ pc = "fetch_batch"
    /\ fb_i <= Len(issues_data)
    /\ LET normalized == Normalize(issues_data[fb_i])
       IN  IF normalized.ok
           THEN /\ normalized_issues' = Append(normalized_issues, normalized.issue)
                /\ fb_i' = fb_i + 1
                /\ UNCHANGED <<pc, stack, exc>>
           ELSE /\ exc' = normalized.error
                /\ pc' = Unwind(stack)
                /\ stack' = <<>>
                /\ UNCHANGED <<normalized_issues, fb_i>>
    /\ UNCHANGED <<entry, writerVars, cliVars>>
    /\ UNCHANGED <<server_issues, server_mode, batch_size, limit, all_issues, start_at,
                   requests, sa_calls, issues_data>>
    /\ UNCHANGED pureVars

\* One turn of fetch_batch's for loop, lines 76-87: normalize, and the except
\* clause that drops the item normalize raised on.
FetchBatchStep ==
    /\ pc = "fetch_batch"
    /\ fb_i <= Len(issues_data)
    /\ LET normalized == Normalize(issues_data[fb_i])
       IN  normalized_issues' =
               IF normalized.ok
               THEN Append(normalized_issues, normalized.issue)
               ELSE normalized_issues
    /\ fb_i' = fb_i + 1
    /\ UNCHANGED <<ctlVars, writerVars, cliVars>>
    /\ UNCHANGED <<server_issues, server_mode, batch_size, limit, all_issues, start_at,
                   requests, sa_calls, issues_data>>
    /\ UNCHANGED pureVars

\* fetch_batch returns normalized_issues: line 90.
FetchBatchReturn ==
    /\ pc = "fetch_batch"
    /\ fb_i > Len(issues_data)
    /\ pc' = Head(stack)
    /\ stack' = Tail(stack)
    /\ UNCHANGED <<entry, exc, writerVars, searchVars, cliVars>>
    /\ UNCHANGED pureVars

SearchNext ==
    \/ CallSearchAll
    \/ CallFetchBatch
    \/ SearchAllTurn
    \/ SearchAllRaise
    \/ SearchAllReturn
    \/ FetchBatchStep
    \/ FetchBatchReturn

SpecSearch == SearchInit /\ [][SearchNext]_vars

\* ------------------------------------------------------------------ cli.py
\* The keys a file names and the server knows.
Keys == {KeyA1, KeyA2, KeyA3}
RawC == JObj([key |-> JStr(KeyA3), fields |-> JObj([summary |-> JStr(<<"c">>)])])
GoodRaw(key) == IF key = KeyA1 THEN RawA ELSE IF key = KeyA2 THEN RawB ELSE RawC

UniqueKeys_KeepLast(found) ==
    LET kept == SelectSeq([k \in 1..Len(found) |-> [key |-> found[k], at |-> k]],
                          LAMBDA e : \A j \in (e.at + 1)..Len(found) : found[j] # e.key)
    IN  [k \in 1..Len(kept) |-> kept[k].key]

\* _parse_issue_file, lines 46-54: the loop over the matches with `seen`.
RECURSIVE UniqueFrom(_, _, _)
UniqueFrom(found, seen, unique_keys) ==
    IF found = <<>> THEN unique_keys
    ELSE IF Head(found) \in seen THEN UniqueFrom(Tail(found), seen, unique_keys)
    ELSE UniqueFrom(Tail(found), seen \cup {Head(found)}, Append(unique_keys, Head(found)))

UniqueKeys(found) == UniqueFrom(found, {}, <<>>)

\* IssueFetcher.fetch_single(key), lines 39-45: get_issue raises
\* HTTPStatusError, or answers with the issue as the server holds it (well
\* formed, or with "fields": null) and normalize returns or raises.
FetchSingle(key) ==
    {Raised("HTTPStatusError")} \cup
    {Normalize(raw) : raw \in {GoodRaw(key), JObj([key |-> JStr(key), fields |-> JNull])}}

\* MarkdownRenderer.render, as far as the writer sees it: a text made from
\* the record.
Render(issue) == <<"#", " ">> \o issue.key \o <<" ">> \o issue.summary
RenderAll(records) == [k \in 1..Len(records) |-> <<records[k], Render(records[k])>>]

\* The option sets a run is started with; an option not given is empty/FALSE.
OptionSets ==
    [key : {<<>>, KeyA1}, jql : BOOLEAN, file : BOOLEAN,
     limit : (0 - 1)..MaxLimit, no_overwrite : BOOLEAN]

OptionsCount(o) ==
    (IF o.key # <<>> THEN 1 ELSE 0) + (IF o.jql THEN 1 ELSE 0) + (IF o.file THEN 1 ELSE 0)

\* The output directory a command finds.
CliInitialFiles ==
    {[p \in D |-> OldContent] : D \in SUBSET {GetFilePath(IssueA)}}

CliInit ==
    /\ pc = "cli_start"
    /\ stack = <<>>
    /\ entry = "fetch"
    /\ exc = "none"
    /\ opts \in OptionSets
    \* --limit is read in --jql mode only: the other modes start with one value.
    /\ opts.jql \/ opts.limit = MaxLimit
    /\ overwrite = TRUE
    /\ files \in CliInitialFiles
    /\ files0 = files
    /\ issues_with_content = <<>>
    /\ wb_i = 1
    /\ written_paths = <<>>
    /\ wlog = <<>>
    /\ server_issues \in IF opts.jql /\ OptionsCount(opts) = 1
                         THEN SeqsUpTo(RawSamples, MaxTotal)
                         ELSE {<<>>}
    /\ server_mode \in IF opts.jql /\ OptionsCount(opts) = 1
                       THEN {"honest", "any"}
                       ELSE {"honest"}
    /\ ClientIdle
    /\ matches = <<>>
    /\ issue_keys = <<>>
    /\ fk_i = 1
    /\ issues = <<>>
    /\ fetch_log = <<>>
    /\ file_read = FALSE
    /\ exit_code = None
    /\ PureIdle

\* typer.Exit(code) raised where no try encloses it, or the command returning.
ExitWith(code) ==
    /\ exit_code' = Some(code)
    /\ pc' = "exit"

\* fetch, lines 134-143: the validation of the options.
CliValidate ==
    /\ pc = "cli_start"
    /\ IF OptionsCount(opts) = 0 \/ OptionsCount(opts) > 1
       THEN ExitWith(1)
       ELSE pc' = "cli_load" /\ UNCHANGED exit_code
    /\ UNCHANGED <<stack, entry, exc, writerVars, searchVars>>
    /\ UNCHANGED <<opts, matches, issue_keys, file_read, fk_i, issues, fetch_log>>
    /\ UNCHANGED pureVars

\* fetch, lines 146-162, 168, 207: the settings are loaded (or load_settings
\* raises), the writer is built and the mode is chosen.
CliLoadSettings ==
    /\ pc = "cli_load"
    /\ \E loaded \in BOOLEAN :
          IF loaded
          THEN /\ overwrite' = ~opts.no_overwrite
               /\ pc' = IF opts.key # <<>> THEN "cli_key"
                        ELSE IF opts.file THEN "cli_file" ELSE "cli_jql"
               /\ UNCHANGED exc
          ELSE /\ exc' = "SettingsError"
               /\ pc' = "cli_except"
               /\ UNCHANGED overwrite
    /\ UNCHANGED <<stack, entry, searchVars, cliVars>>
    /\ UNCHANGED <<files, files0, issues_with_content, wb_i, written_paths, wlog>>
    /\ UNCHANGED pureVars

FetchRecord(key, result) ==
    [key |-> key, ok |-> result.ok, error |-> IF result.ok THEN "none" ELSE result.error]

CliKeyFetch_Swallow ==
    /\ pc = "cli_key"
    /\ \E result \in FetchSingle(opts.key) :
          /\ fetch_log' = Append(fetch_log, FetchRecord(opts.key, result))
          /\ IF result.ok
             THEN /\ issues' = <<result.issue>>
                  /\ pc' = "cli_key_write"
                  /\ UNCHANGED exc
             ELSE /\ exc' = result.error
                  /\ pc' = "cli_done"
                  /\ UNCHANGED issues
    /\ UNCHANGED <<stack, entry, writerVars, searchVars>>
    /\ UNCHANGED <<opts, matches, issue_keys, file_read, fk_i, exit_code>>
    /\ UNCHANGED pureVars

\* fetch --key, line 164: fetcher.fetch_single(key), whose exception nothing
\* catches before the except clause of line 234.
CliKeyFetch ==
    /\ pc = "cli_key"
    /\ \E result \in FetchSingle(opts.key) :
          /\ fetch_log' = Append(fetch_log, FetchRecord(opts.key, result))
          /\ IF result.ok
             THEN /\ issues' = <<result.issue>>
                  /\ pc' = "cli_key_write"
                  /\ UNCHANGED exc
             ELSE /\ exc' = result.error
                  /\ pc' = "cli_except"
                  /\ UNCHANGED issues
    /\ UNCHANGED <<stack, entry, writerVars, searchVars>>
    /\ UNCHANGED <<opts, matches, issue_keys, file_read, fk_i, exit_code>>
    /\ UNCHANGED pureVars

\* fetch --key, lines 165-166: render, then writer.write; either may raise.
CliKeyWrite ==
    /\ pc = "cli_key_write"
    /\ \E rendered \in BOOLEAN, io \in IoOutcomes :
          IF ~rendered
          THEN /\ exc' = "TemplateError"
               /\ pc' = "cli_except"
               /\ UNCHANGED <<files, wlog>>
          ELSE LET issue == issues[1]
                   content == Render(issue)
               IN  /\ files' = WriteEffect(files, overwrite, issue, content, io)
                   /\ wlog' = Append(wlog, Attempt(files, overwrite, issue, content, io))
                   /\ exc' = IF io = "ok" THEN exc ELSE "OSError"
                   /\ pc' = IF io = "ok" THEN "cli_done" ELSE "cli_except"
    /\ UNCHANGED <<stack, entry, searchVars, cliVars>>
    /\ UNCHANGED <<files0, overwrite, issues_with_content, wb_i, written_paths>>
    /\ UNCHANGED pureVars

\* fetch --file, lines 172-177: _parse_issue_file. Reading the file may raise;
\* with no key found Exit(0) is raised inside the try of line 171.
CliParseFile ==
    /\ pc = "cli_file"
    /\ \E read \in {"ok", "FileNotFoundError", "UnicodeDecodeError"} :
          IF read # "ok"
          THEN /\ exc' = read
               /\ pc' = "cli_file_except"
               /\ UNCHANGED <<matches, issue_keys, file_read>>
          ELSE \E found \in SeqsUpTo(Keys, MaxMatches) :
                 /\ matches' = found
                 /\ issue_keys' = UniqueKeys(found)
                 /\ file_read' = TRUE
                 /\ exc' = IF found = <<>> THEN "Exit(0)" ELSE exc
                 /\ pc' = IF found = <<>> THEN "cli_file_except" ELSE "cli_file_loop"
    /\ fk_i' = 1
    /\ issues' = <<>>
    /\ UNCHANGED <<stack, entry, writerVars, searchVars, opts, fetch_log, exit_code>>
    /\ UNCHANGED pureVars

\* One turn of the for loop of lines 181-187: fetch_single, and the except
\* clause that drops the key whose fetch raised.
CliFileFetchStep ==
    /\ pc = "cli_file_loop"
    /\ fk_i <= Len(issue_keys)
    /\ \E result \in FetchSingle(issue_keys[fk_i]) :
          /\ fetch_log' = Append(fetch_log, FetchRecord(issue_keys[fk_i], result))
          /\ issues' = IF result.ok THEN Append(issues, result.issue) ELSE issues
    /\ fk_i' = fk_i + 1
    /\ UNCHANGED <<ctlVars, writerVars, searchVars, opts, matches, issue_keys, file_read, exit_code>>
    /\ UNCHANGED pureVars

\* fetch --file, lines 189-196, after the loop: Exit(1) with nothing fetched,
\* else every record is rendered (which may raise) and write_batch is called.
CliFileWrite ==
    /\ pc = "cli_file_loop"
    /\ fk_i > Len(issue_keys)
    /\ IF issues = <<>>
       THEN /\ exc' = "Exit(1)"
            /\ pc' = "cli_file_except"
            /\ UNCHANGED <<stack, writerVars>>
       ELSE \E rendered \in BOOLEAN :
              IF ~rendered
              THEN /\ exc' = "TemplateError"
                   /\ pc' = "cli_file_except"
                   /\ UNCHANGED <<stack, writerVars>>
              ELSE /\ EnterWriteBatch(RenderAll(issues), <<"cli_done">>)
                   /\ UNCHANGED <<exc, overwrite>>
    /\ UNCHANGED <<entry, searchVars, cliVars>>
    /\ UNCHANGED pureVars

\* fetch --file, lines 200-205: both except clauses raise Exit(1), which the
\* except clause of line 234 catches in turn.
CliFileExcept ==
    /\ pc = "cli_file_except"
    /\ exc' = "Exit(1)"
    /\ pc' = "cli_except"
    /\ UNCHANGED <<stack, entry, writerVars, searchVars, cliVars>>
    /\ UNCHANGED pureVars

\* fetch --jql, line 209: fetcher.fetch_batch(jql, limit=limit).
CliJqlFetch ==
    /\ pc = "cli_jql"
    /\ EnterFetchBatch(DefaultBatchSize, Some(opts.limit), <<"cli_jql_fetched">>)
    /\ UNCHANGED <<entry, exc, writerVars, cliVars>>
    /\ UNCHANGED pureVars

\* fetch --jql, lines 211-218: Exit(0) with no record (raised inside the try
\* of line 145), else every record is rendered and write_batch is called.
CliJqlWrite ==
    /\ pc = "cli_jql_fetched"
    /\ issues' = normalized_issues
    /\ IF normalized_issues = <<>>
       THEN /\ exc' = "Exit(0)"
            /\ pc' = "cli_except"
            /\ UNCHANGED <<stack, writerVars>>
       ELSE \E rendered \in BOOLEAN :
              IF ~rendered
              THEN /\ exc' = "TemplateError"
                   /\ pc' = "cli_except"
                   /\ UNCHANGED <<stack, writerVars>>
              ELSE /\ EnterWriteBatch(RenderAll(normalized_issues), <<"cli_done">>)
                   /\ UNCHANGED <<exc, overwrite>>
    /\ UNCHANGED <<entry, searchVars>>
    /\ UNCHANGED <<opts, matches, issue_keys, file_read, fk_i, fetch_log, exit_code>>
    /\ UNCHANGED pureVars

\* fetch, lines 225-236: whatever exception reaches the outer try, typer.Exit
\* included (click's Exit is a RuntimeError), the command raises Exit(1).
CliExcept ==
    /\ pc = "cli_except"
    /\ ExitWith(1)
    /\ UNCHANGED <<stack, entry, exc, writerVars, searchVars>>
    /\ UNCHANGED <<opts, matches, issue_keys, file_read, fk_i, issues, fetch_log>>
    /\ UNCHANGED pureVars

\* fetch, lines 222-223: the command returns, which is exit status 0.
CliDone ==
    /\ pc = "cli_done"
    /\ ExitWith(0)
    /\ UNCHANGED <<stack, entry, exc, writerVars, searchVars>>
    /\ UNCHANGED <<opts, matches, issue_keys, file_read, fk_i, issues, fetch_log>>
    /\ UNCHANGED pureVars

CliNext ==
    \/ CliValidate
    \/ CliLoadSettings
    \/ CliKeyFetch
    \/ CliKeyWrite
    \/ CliParseFile
    \/ CliFileFetchStep
    \/ CliFileWrite
    \/ CliFileExcept
    \/ CliJqlFetch
    \/ SearchAllTurn
    \/ SearchAllRaise
    \/ SearchAllReturn
    \/ FetchBatchStep
    \/ FetchBatchReturn
    \/ CliJqlWrite
    \/ WriteBatchStep
    \/ WriteBatchReturn
    \/ CliExcept
    \/ CliDone

SpecCli == CliInit /\ [][CliNext]_vars

\* ------------------------------------------------------- _parse_adf alone
\* Most children of a paragraph and most paragraphs of a document.
MaxChildren == 2
MaxParagraphs == 3

TextNode(t) == JObj([type |-> JStr(Str_text), text |-> JStr(t)])
Paragraph(children) == JObj([type |-> JStr(Str_paragraph), content |-> JList(children)])
\* A paragraph without the name "content".
BareParagraph == JObj([type |-> JStr(Str_paragraph)])
Doc(children) == JObj([type |-> JStr(Str_doc), content |-> JList(children)])

\* The text of a text node: empty or not, and without a newline of its own.
AdfTexts == {<<>>, <<"H">>}

\* Paragraphs of text nodes, a paragraph without children, and paragraphs
\* nested in a paragraph.
AdfParagraphs(max_children) ==
    {Paragraph(children) :
        children \in SeqsUpTo({TextNode(t) : t \in AdfTexts}, max_children)}
        \cup {BareParagraph, Paragraph(<<BareParagraph>>),
              Paragraph(<<Paragraph(<<TextNode(<<"H">>)>>)>>)}

AdfDocs(max_children, max_paragraphs) ==
    {Doc(paragraphs) : paragraphs \in SeqsUpTo(AdfParagraphs(max_children), max_paragraphs)}

\* What the description of a raw issue may be.
Descriptions(max_children, max_paragraphs) ==
    {JNull, JStr(<<>>), JStr(<<"H">>), EmptyObj} \cup AdfDocs(max_children, max_paragraphs)

\* The description is a document tree: isinstance(description, dict), not empty.
IsDocument(description) == description.t = "obj" /\ DOMAIN description.v # {}

AdfInit ==
    /\ pc = "idle"
    /\ stack = <<>>
    /\ entry = "parse_adf"
    /\ exc = "none"
    /\ adf_input \in Descriptions(MaxChildren, MaxParagraphs)
    /\ adf_output = <<>>
    /\ SlugIdle
    /\ NormalizerIdle
    /\ WriterIdle
    /\ SearchIdle
    /\ CliIdle

\* IssueNormalizer._parse_adf(adf_doc), called on a document: lines 155-176.
CallParseAdf ==
    /\ pc = "idle"
    /\ IsDocument(adf_input)
    /\ adf_output' = ParseAdf(adf_input)
    /\ pc' = "done"
    /\ UNCHANGED <<stack, entry, exc, adf_input>>
    /\ UNCHANGED <<sl_issue, sl_slug, sl_path, sl_again, nz_issue_data, nz_result>>
    /\ UNCHANGED <<writerVars, searchVars, cliVars>>

\* IssueNormalizer._extract_description_text(description): lines 132-143.
CallExtractDescriptionText ==
    /\ pc = "idle"
    /\ adf_output' = ExtractDescriptionText(adf_input)
    /\ pc' = "extracted"
    /\ UNCHANGED <<stack, entry, exc, adf_input>>
    /\ UNCHANGED <<sl_issue, sl_slug, sl_path, sl_again, nz_issue_data, nz_result>>
    /\ UNCHANGED <<writerVars, searchVars, cliVars>>

AdfNext == CallParseAdf \/ CallExtractDescriptionText

SpecAdf == AdfInit /\ [][AdfNext]_vars

\* -------------------------------------------------------- normalize alone
\* Most names of a raw payload that are absent, null or odd at once.
MaxDeviations == 2

\* The value of a name the payload does not hold.
Absent == [t |-> "absent"]

\* The object of the names of f that are not Absent.
ObjOf(f) == JObj([n \in {m \in DOMAIN f : f[m] # Absent} |-> f[n]])

Str_D == <<"D">>
Str_e == <<"e">>
IsoSample ==
    <<"2", "0", "2", "5", "-", "1", "2", "-", "0", "1", "T",
      "1", "0", ":", "0", "0", ":", "0", "0", "Z">>

\* The names normalize reads inside "fields".
FieldNames ==
    {"summary", "project", "issuetype", "status", "priority", "assignee", "reporter",
     "labels", "components", "created", "updated", "description", "issuelinks"}
PayloadNames == {"key", "fields"} \cup FieldNames

\* A well-formed value of each name ("fields" is built from the others).
WellFormed ==
    [key |-> JStr(KeyA1),
     fields |-> EmptyObj,
     summary |-> JStr(<<"s">>),
     project |-> JObj([key |-> JStr(Str_A)]),
     issuetype |-> JObj([name |-> JStr(<<"B", "u", "g">>)]),
     status |-> JObj([name |-> JStr(<<"O", "p", "e", "n">>)]),
     priority |-> JObj([name |-> JStr(<<"H", "i", "g", "h">>)]),
     assignee |-> JObj([displayName |-> JStr(Str_D), emailAddress |-> JStr(Str_e)]),
     reporter |-> JObj([displayName |-> JStr(Str_D), emailAddress |-> JStr(Str_e)]),
     labels |-> JList(<<JStr(<<"l">>)>>),
     components |-> JList(<<JObj([name |-> JStr(<<"c">>)]), JObj([name |-> JStr(<<>>)])>>),
     created |-> JStr(IsoSample),
     updated |-> JStr(<<"x">>),
     description |-> Doc(<<Paragraph(<<TextNode(<<"H">>)>>)>>),
     issuelinks |-> JList(<<JObj([inwardIssue |-> JObj([key |-> JStr(KeyA2)])]),
                            JObj([outwardIssue |-> JObj([key |-> JStr(KeyA3)])])>>)]

\* The person objects tried besides the well-formed one: each of displayName
\* and emailAddress absent, null or a string, and an object with neither.
PersonObjects ==
    {ObjOf([displayName |-> d, emailAddress |-> e]) :
        d \in {Absent, JNull, JStr(Str_D)}, e \in {Absent, JNull, JStr(Str_e)}}
        \cup {JObj([accountId |-> JStr(<<"i">>)])}

\* What a name may hold instead of its well-formed value.
Deviations(name) ==
    IF name \in {"assignee", "reporter"}
    THEN ({Absent, JNull} \cup PersonObjects) \ {WellFormed[name]}
    ELSE {Absent, JNull}

AllDeviations == UNION {Deviations(name) : name \in PayloadNames}

\* The payload in which the names of DOMAIN dev hold dev[name] and every
\* other name its well-formed value.
PayloadOf(dev) ==
    LET value(name) == IF name \in DOMAIN dev THEN dev[name] ELSE WellFormed[name]
        fields == IF "fields" \in DOMAIN dev THEN dev["fields"]
                  ELSE ObjOf([name \in FieldNames |-> value(name)])
    IN  ObjOf([name \in {"key", "fields"} |->
                  IF name = "key" THEN value("key") ELSE fields])

\* The payloads in which at most max_deviations names deviate.
RawPayloads(max_deviations) ==
    UNION {{PayloadOf(dev) :
              dev \in {f \in [D -> AllDeviations] : \A name \in D : f[name] \in Deviations(name)}} :
           D \in {E \in SUBSET PayloadNames : Cardinality(E) <= max_deviations}}

NormalizeInit ==
    /\ pc = "idle"
    /\ stack = <<>>
    /\ entry = "normalize"
    /\ exc = "none"
    /\ nz_issue_data \in RawPayloads(MaxDeviations)
    /\ nz_result = Raised("none")
    /\ SlugIdle
    /\ AdfIdle
    /\ WriterIdle
    /\ SearchIdle
    /\ CliIdle

\* IssueNormalizer.normalize(issue_data, base_url) returns: lines 23-101.
CallNormalize ==
    /\ pc = "idle"
    /\ Normalize(nz_issue_data).ok
    /\ nz_result' = Normalize(nz_issue_data)
    /\ pc' = "done"
    /\ UNCHANGED <<stack, entry, exc, nz_issue_data>>
    /\ UNCHANGED <<sl_issue, sl_slug, sl_path, sl_again, adf_input, adf_output>>
    /\ UNCHANGED <<writerVars, searchVars, cliVars>>

\* IssueNormalizer.normalize(issue_data, base_url) raises.
CallNormalizeRaise ==
    /\ pc = "idle"
    /\ ~Normalize(nz_issue_data).ok
    /\ nz_result' = Normalize(nz_issue_data)
    /\ exc' = Normalize(nz_issue_data).error
    /\ pc' = "raised"
    /\ UNCHANGED <<stack, entry, nz_issue_data>>
    /\ UNCHANGED <<sl_issue, sl_slug, sl_path, sl_again, adf_input, adf_output>>
    /\ UNCHANGED <<writerVars, searchVars, cliVars>>

NormalizeNext == CallNormalize \/ CallNormalizeRaise

SpecNormalize == NormalizeInit /\ [][NormalizeNext]_vars

\* ------------------------------------------- _slugify and _get_file_path alone
\* The characters the summaries are made of: a space, a hyphen, a character
\* illegal in a file name, a letter and a control character.
SlugAlphabet == {" ", Hyphen, "?", "a", "^A"}
\* Most characters before and after the run of letters of a summary.
MaxAffix == 2

\* c * n
Repeat(c, n) == [k \in 1..n |-> c]

\* How many letters the run in the middle of a summary has: none, or about
\* as many as a slug may hold.
FillerLengths == {0} \cup ((MaxSlugLength - 3)..MaxSlugLength)

ExampleSummary ==
    <<"F", "i", "x", " ", "L", "o", "g", "i", "n", " ", " ", " ", "B", "u", "g", "!", "!">>
ExampleIssue ==
    [key |-> <<"U", "E", "P", "-", "1">>, project_key |-> <<"U", "E", "P">>,
     summary |-> ExampleSummary]

\* The summaries with at most `affix` characters before and after the letters.
SlugTexts(affix) ==
    {lead \o Repeat("a", n) \o tail :
        lead \in SeqsUpTo(SlugAlphabet, affix),
        tail \in SeqsUpTo(SlugAlphabet, affix),
        n \in FillerLengths}

SlugIssues(affix) ==
    {[key |-> KeyA1, project_key |-> Str_A, summary |-> t] : t \in SlugTexts(affix)}
        \cup {ExampleIssue}

SlugInit ==
    /\ pc = "idle"
    /\ stack = <<>>
    /\ entry = "slugify"
    /\ exc = "none"
    /\ sl_issue \in SlugIssues(MaxAffix)
    /\ sl_slug = <<>>
    /\ sl_path = NoPath
    /\ sl_again = <<>>
    /\ NormalizerIdle
    /\ AdfIdle
    /\ WriterIdle
    /\ SearchIdle
    /\ CliIdle

\* MarkdownWriter._slugify(issue.summary): lines 94-123.
CallSlugify ==
    /\ pc = "idle"
    /\ sl_slug' = Slugify(sl_issue.summary)
    /\ pc' = "slugified"
    /\ UNCHANGED <<stack, entry, exc, sl_issue, sl_path, sl_again>>
    /\ UNCHANGED <<nz_issue_data, nz_result, adf_input, adf_output>>
    /\ UNCHANGED <<writerVars, searchVars, cliVars>>

\* MarkdownWriter._slugify applied to a slug it returned.
CallSlugifyAgain ==
    /\ pc = "slugified"
    /\ sl_again' = Slugify(sl_slug)
    /\ pc' = "reslugified"
    /\ UNCHANGED <<stack, entry, exc, sl_issue, sl_slug, sl_path>>
    /\ UNCHANGED <<nz_issue_data, nz_result, adf_input, adf_output>>
    /\ UNCHANGED <<writerVars, searchVars, cliVars>>

\* MarkdownWriter._get_file_path(issue): lines 79-81.
CallGetFilePath ==
    /\ pc = "idle"
    /\ sl_path' = GetFilePath(sl_issue)
    /\ pc' = "done"
    /\ UNCHANGED <<stack, entry, exc, sl_issue, sl_slug, sl_again>>
    /\ UNCHANGED <<nz_issue_data, nz_result, adf_input, adf_output>>
    /\ UNCHANGED <<writerVars, searchVars, cliVars>>

SlugNext == CallSlugify \/ CallSlugifyAgain \/ CallGetFilePath

SpecSlug == SlugInit /\ [][SlugNext]_vars

\* -------------------------------------------- the fetch command's properties
FileMode == entry = "fetch" /\ OptionsCount(opts) = 1 /\ opts.file
JqlMode == entry = "fetch" /\ OptionsCount(opts) = 1 /\ opts.jql
KeyMode == entry = "fetch" /\ OptionsCount(opts) = 1 /\ opts.key # <<>>

Elements(q) == {q[k] : k \in 1..Len(q)}
FirstAt(q, x) == CHOOSE k \in 1..Len(q) : q[k] = x /\ \A j \in 1..(k - 1) : q[j] # x
KeysOf(q) == [k \in 1..Len(q) |-> q[k].key]

\* C8: in file mode the keys are the matches without repetitions, in the
\* order of their first occurrence; fetch_single is called once per key in
\* that order, also after a failed fetch; the records kept, and handed to
\* write_batch, are those of the successful fetches in key order.
C8_FileMode ==
    (FileMode /\ matches # <<>>) =>
        /\ Elements(issue_keys) = Elements(matches)
        /\ \A i, j \in 1..Len(issue_keys) :
              i < j => FirstAt(matches, issue_keys[i]) < FirstAt(matches, issue_keys[j])
        /\ KeysOf(fetch_log) = SubSeq(issue_keys, 1, Len(fetch_log))
        /\ Len(fetch_log) = IF pc = "cli_file_loop" THEN fk_i - 1 ELSE Len(issue_keys)
        /\ KeysOf(issues) = KeysOf(SelectSeq(fetch_log, LAMBDA f : f.ok))
        /\ pc = "write_batch" =>
              [k \in 1..Len(issues_with_content) |-> issues_with_content[k][1]] = issues

\* The file names A-2, A-1, A-2; the fetch of A-2 fails, that of A-1 succeeds.
C8_Witness ==
    /\ FileMode
    /\ matches = <<KeyA2, KeyA1, KeyA2>>
    /\ issue_keys = <<KeyA2, KeyA1>>
    /\ Len(fetch_log) = 2
    /\ ~fetch_log[1].ok /\ fetch_log[2].ok
    /\ pc = "write_batch"
    /\ Len(issues_with_content) = 1
    /\ issues_with_content[1][1].key = KeyA1

ItemsAttempted == IF opts.jql THEN Len(issues_data) ELSE Len(issue_keys)
WrittenCount == Cardinality({k \in 1..Len(wlog) : wlog[k].io = "ok"})

\* C9: a batch run (--jql or --file) in which at least one item is attempted
\* ends with a non-zero status when no item is written, and with status 0
\* when at least one is.
C9_BatchExitStatus ==
    (pc = "exit" /\ (FileMode \/ JqlMode) /\ ItemsAttempted >= 1) =>
        /\ WrittenCount = 0 => exit_code.v # 0
        /\ WrittenCount >= 1 => exit_code.v = 0

\* C10: in single-key mode a failed fetch or normalization is raised to the
\* command (no record is returned), nothing is written, and the command ends
\* with a non-zero status.
C10_SingleKeyFailure ==
    (KeyMode /\ fetch_log # <<>> /\ ~fetch_log[1].ok) =>
        /\ Len(fetch_log) = 1
        /\ issues = <<>>
        /\ exc = fetch_log[1].error
        /\ files = files0
        /\ wlog = <<>>
        /\ pc \in {"cli_except", "exit"}
        /\ pc = "exit" => exit_code.some /\ exit_code.v # 0

\* The issue is fetched, normalize raises on it, and the command has ended.
C10_Witness ==
    /\ KeyMode
    /\ fetch_log # <<>>
    /\ fetch_log[1].error = "AttributeError"
    /\ pc = "exit"
    /\ exit_code = Some(1)
    /\ files = files0

\* ------------------------------------- the client's and fetcher's properties
\* C1: with a limit L >= 1, whatever pages the endpoint answers with (each of
\* at most maxResults issues), search_all_issues never holds and never
\* returns more than L issues, also when the query matches more than L.
C1_PaginationBound ==
    (entry # "none" /\ limit.some /\ limit.v >= 1) =>
        /\ Len(all_issues) <= limit.v
        /\ Len(issues_data) <= limit.v

C1_Witness ==
    /\ entry = "search_all_issues"
    /\ pc = "done"
    /\ limit.some /\ limit.v >= 1
    /\ batch_size > limit.v
    /\ Len(server_issues) > limit.v
    /\ Len(issues_data) = limit.v

\* C2: against a service that honours maxResults and startAt and matches T
\* issues, search_all_issues returns exactly min(L, T) issues, and exactly T
\* when no limit is set.
C2_NoTruncation ==
    (/\ entry = "search_all_issues"
     /\ pc = "done"
     /\ server_mode = "honest"
     /\ ~limit.some \/ limit.v >= 1)
    => Len(issues_data) =
          IF limit.some THEN Min(limit.v, Len(server_issues)) ELSE Len(server_issues)

\* The records of the raw items normalize accepts, in the order of the items.
NormalizedOf(raws) ==
    LET good == SelectSeq(raws, LAMBDA r : Normalize(r).ok)
    IN  [k \in 1..Len(good) |-> Normalize(good[k]).issue]

\* C7: fetch_batch calls search_all_issues once, no normalization failure
\* makes it raise, and its result is the records of the items that
\* normalized, in the order of the search result.
C7_FetchBatchResult ==
    entry = "fetch_batch" =>
        /\ sa_calls = 1
        /\ exc \in {"none", "HTTPStatusError"}
        /\ exc = "HTTPStatusError" => fb_i = 1 /\ normalized_issues = <<>>
        /\ pc = "fetch_batch" =>
              normalized_issues = NormalizedOf(SubSeq(issues_data, 1, fb_i - 1))
        /\ pc = "done" => normalized_issues = NormalizedOf(issues_data)

\* Three items found, the second of which normalize raises on.
C7_Witness ==
    /\ entry = "fetch_batch"
    /\ pc = "done"
    /\ Len(issues_data) = 3
    /\ Normalize(issues_data[1]).ok
    /\ ~Normalize(issues_data[2]).ok
    /\ Normalize(issues_data[3]).ok
    /\ normalized_issues = <<Normalize(issues_data[1]).issue, Normalize(issues_data[3]).issue>>
    /\ normalized_issues[1] # normalized_issues[2]

\* ------------------------------------------------ the writer's properties
IsPrefix(a, b) == Len(a) <= Len(b) /\ SubSeq(b, 1, Len(a)) = a

\* p is the issue's computed path or one of its "__v<N>" variants.
IsFileOf(p, issue) ==
    LET base == GetFilePath(issue)
    IN  /\ p.parent = base.parent
        /\ \/ p = base
           \/ IsPrefix(Stem(base) \o <<"_", "_", "v">>, p.name)
FilesOf(fs, issue) == {p \in DOMAIN fs : IsFileOf(p, issue)}

OnlySuccessfulWritesOf(issue) ==
    \A k \in 1..Len(wlog) : wlog[k].issue = issue /\ wlog[k].io = "ok"

\* C3: with overwrite disabled and none of the issue's files in the directory,
\* the k-th of n successive writes of the same issue targets {key}-{slug}.md
\* for k = 1 and {key}-{slug}__v{k}.md for k >= 2.
C3_VersionSequence ==
    \A issue \in WriterIssues :
        (~overwrite /\ FilesOf(files0, issue) = {} /\ OnlySuccessfulWritesOf(issue))
        => \A k \in 1..Len(wlog) :
              /\ wlog[k].target =
                    IF k = 1 THEN GetFilePath(issue)
                    ELSE VersionPath(GetFilePath(issue), k)
              /\ wlog[k].target \in DOMAIN files

C3_Witness ==
    /\ ~overwrite
    /\ FilesOf(files0, IssueA) = {}
    /\ OnlySuccessfulWritesOf(IssueA)
    /\ Len(wlog) = 3
    /\ wlog[3].target = VersionPath(GetFilePath(IssueA), 3)

\* C4: with overwrite disabled, whatever the directory held, no step of write
\* or write_batch changes or removes a file that existed before it, and the
\* path a write attempt targets did not exist immediately before it.
C4_NoClobber ==
    [][~overwrite =>
         /\ \A p \in DOMAIN files : p \in DOMAIN files' /\ files'[p] = files[p]
         /\ Len(wlog') > Len(wlog) => wlog'[Len(wlog')].target \notin DOMAIN files]_vars

\* The directory held the base file and __v3 but not __v2, and two writes of
\* the issue went to __v2 and __v4.
C4_Witness ==
    LET base == GetFilePath(IssueA)
    IN  /\ ~overwrite
        /\ FilesOf(files0, IssueA) = {base, VersionPath(base, 3)}
        /\ Len(wlog) >= 2
        /\ wlog[1].target = VersionPath(base, 2) /\ wlog[1].io = "ok"
        /\ wlog[2].target = VersionPath(base, 4) /\ wlog[2].io = "ok"
        /\ files[base] = OldContent

AttemptsAt(issue) == {k \in 1..Len(wlog) : wlog[k].issue = issue}
LastAttemptAt(issue) == CHOOSE k \in AttemptsAt(issue) : \A j \in AttemptsAt(issue) : j <= k

\* C5: with overwrite enabled every write targets the computed path, existing
\* or not, and no "__v<N>" file is ever created; an issue none of whose files
\* was there ends with exactly one file, and a successful last write of an
\* issue leaves its content in that file.
C5_OverwriteInPlace ==
    overwrite =>
        /\ \A k \in 1..Len(wlog) : wlog[k].target = GetFilePath(wlog[k].issue)
        /\ \A p \in DOMAIN files \ DOMAIN files0 :
              \E issue \in WriterIssues : p = GetFilePath(issue)
        /\ \A issue \in WriterIssues :
              AttemptsAt(issue) # {} /\ wlog[LastAttemptAt(issue)].io = "ok" =>
                 /\ files[GetFilePath(issue)] = wlog[LastAttemptAt(issue)].content
                 /\ FilesOf(files0, issue) = {} => FilesOf(files, issue) = {GetFilePath(issue)}

\* The same issue written twice, once onto nothing and once onto its own file.
C5_Witness ==
    /\ overwrite
    /\ FilesOf(files0, IssueA) = {}
    /\ Len(wlog) >= 2
    /\ wlog[1].issue = IssueA /\ wlog[1].io = "ok"
    /\ wlog[2].issue = IssueA /\ wlog[2].io = "ok"
    /\ files[GetFilePath(IssueA)] = wlog[2].content

Targets(attempts) == [k \in 1..Len(attempts) |-> attempts[k].target]

\* C6: write_batch attempts every pair in input order whatever fails, raises
\* nothing (it stays in its loop until the list is exhausted), and its result
\* is the paths of the successful writes, in input order.
C6_WriteBatchResult ==
    pc = "write_batch" =>
        LET done == wb_i - 1
            first == Len(wlog) - done
            mine == SubSeq(wlog, first + 1, Len(wlog))
        IN  /\ done <= Len(issues_with_content)
            /\ first >= 0
            /\ \A k \in 1..done :
                  /\ mine[k].issue = issues_with_content[k][1]
                  /\ mine[k].content = issues_with_content[k][2]
            /\ written_paths = Targets(SelectSeq(mine, LAMBDA a : a.io = "ok"))

\* A batch of two whose first write failed and whose second succeeded.
C6_Witness ==
    /\ pc = "write_batch"
    /\ Len(issues_with_content) = 2
    /\ wb_i = 3
    /\ wlog[Len(wlog) - 1].io # "ok"
    /\ wlog[Len(wlog)].io = "ok"
    /\ written_paths = <<wlog[Len(wlog)].target>>

\* ------------------------------------------------------------ C14, C15, C16
\* How many times c occurs in s.
Count(s, c) == Cardinality({k \in 1..Len(s) : s[k] = c})

\* The text is a slug: what C16 asks of every result of _slugify.
IsSlug(s) ==
    /\ s # <<>>
    /\ Len(s) <= MaxSlugLength
    /\ \A k \in 1..Len(s) : s[k] \notin Whitespace \cup IllegalChars \cup ControlChars
    /\ \A k \in 1..(Len(s) - 1) : ~(s[k] = Hyphen /\ s[k + 1] = Hyphen)
    /\ s[1] # Hyphen
    /\ s[Len(s)] # Hyphen

\* Every step of _slugify leaves nothing of the text: it holds nothing but
\* whitespace, illegal characters, control characters and hyphens.
NothingLeft(s) ==
    \A k \in 1..Len(s) :
        s[k] \in Whitespace \cup IllegalChars \cup ControlChars \cup {Hyphen}

\* C14: slugification is idempotent: _slugify applied to a slug it returned
\* gives that slug back unchanged, also when the slug came from a truncation
\* at 50 characters.
C14_SlugIdempotent == pc = "reslugified" => sl_again = sl_slug

\* C14 witness: a summary longer than 50 characters, cut at a hyphen, was
\* slugified twice.
C14_Witness ==
    /\ pc = "reslugified"
    /\ Len(sl_issue.summary) > MaxSlugLength
    /\ Len(sl_slug) < MaxSlugLength - 1
    /\ Len(sl_slug) > 1
    /\ sl_again = sl_slug

\* C16: _slugify returns a non-empty string of at most 50 characters with no
\* whitespace, no character of < > : " / \ | ? *, no control character (the
\* class the code names: the ASCII control characters), no two consecutive
\* hyphens and no hyphen at either end; when every step leaves nothing the
\* result is the literal "untitled".
C16_SlugShape ==
    pc = "slugified" =>
        /\ IsSlug(sl_slug)
        /\ NothingLeft(sl_issue.summary) => sl_slug = Untitled

\* C16 witness: a summary of more than 50 characters that holds whitespace
\* and an illegal character was slugified and cut to 50 characters.
C16_Witness ==
    /\ pc = "slugified"
    /\ Len(sl_issue.summary) > MaxSlugLength
    /\ Count(sl_issue.summary, " ") > 0
    /\ Count(sl_issue.summary, "?") > 0
    /\ Len(sl_slug) = MaxSlugLength

\* The file of the example of C15, as the claim has it and as the code gives it.
ExamplePathClaimed ==
    [parent |-> <<"outputs", <<"U", "E", "P">>>>,
     name |-> <<"U", "E", "P", "-", "1", "-", "F", "i", "x", "-", "L", "o", "g", "i", "n",
                "-", "B", "u", "g", ".", "m", "d">>]
ExamplePathComputed ==
    [parent |-> <<"outputs", <<"U", "E", "P">>>>,
     name |-> <<"U", "E", "P", "-", "1", "-", "F", "i", "x", "-", "L", "o", "g", "i", "n",
                "-", "B", "u", "g", "!", "!", ".", "m", "d">>]

\* a is the end of s.
IsSuffix(a, s) == Len(a) <= Len(s) /\ SubSeq(s, Len(s) - Len(a) + 1, Len(s)) = a

\* C15 as stated: the artifact path is outputRoot/projectKey/{key}-{slug}.md
\* with exclamation marks stripped by the slug: the example issue UEP-1,
\* 'Fix Login   Bug!!', gets outputs/UEP/UEP-1-Fix-Login-Bug.md.
C15_ExamplePath ==
    (pc = "done" /\ sl_issue = ExampleIssue) => sl_path = ExamplePathClaimed

\* C15 amended: the path is outputRoot/projectKey/{key}-{slug}.md, the slug
\* has one hyphen for each whitespace run inside the summary and keeps every
\* exclamation mark: the example issue gets outputs/UEP/UEP-1-Fix-Login-Bug!!.md.
C15_PathShape ==
    pc = "done" =>
        /\ sl_path.parent = <<OutputDir, sl_issue.project_key>>
        /\ IsPrefix(sl_issue.key \o <<Hyphen>>, sl_path.name)
        /\ IsSuffix(MdSuffix, sl_path.name)
        /\ Len(sl_path.name) <= Len(sl_issue.key) + 1 + MaxSlugLength + Len(MdSuffix)
        /\ Count(sl_path.name, " ") = 0
        /\ Count(sl_path.name, "!") = Count(sl_issue.summary, "!")
        /\ sl_issue = ExampleIssue => sl_path = ExamplePathComputed

\* C15 witness: the path of the example issue was computed.
C15_Witness ==
    pc = "done" /\ sl_issue = ExampleIssue /\ sl_path = ExamplePathComputed

\* ----------------------------------------------------------------------- C13
\* The text has two newline characters in a row.
DoubleNewline(s) == \E k \in 1..(Len(s) - 1) : s[k] = "\n" /\ s[k + 1] = "\n"

\* The paragraphs of the document at work.
ParagraphsOf(doc) == Get(doc, "content", JList(<<>>)).v

\* C13: paragraphs that contribute no text (no children, or only text nodes
\* with empty text), adjacent or between non-empty paragraphs, never cause
\* two consecutive newline characters in the output of _parse_adf.
C13_NoDoubleNewline ==
    (pc = "done" /\ entry = "parse_adf") => ~DoubleNewline(adf_output)

\* The same for documents whose paragraphs without text have no children at
\* all: the part of C13 the code keeps.
C13_ChildlessParagraphs ==
    (/\ pc = "done" /\ entry = "parse_adf"
     /\ \A k \in 1..Len(ParagraphsOf(adf_input)) :
            ParagraphsOf(adf_input)[k] \in
                {BareParagraph, Paragraph(<<>>), Paragraph(<<TextNode(<<"H">>)>>)})
        => ~DoubleNewline(adf_output)

\* ------------------------------------------------------------------ C11, C12
\* The raw value of a name of "fields" in the payload at work, Absent when
\* the payload has no such name (or no object under "fields").
RawField(name) ==
    LET fields == Get(nz_issue_data, "fields", EmptyObj)
    IN  IF fields.t = "obj" THEN Get(fields, name, Absent) ELSE Absent

\* The name is absent or null in the payload at work.
Missing(name) == RawField(name) \in {Absent, JNull}

\* A call of normalize has ended, by a return or by an exception.
NormalizeEnded == entry = "normalize" /\ pc \in {"done", "raised"}

\* The documented default of each field of the record, by the raw name it is
\* read from.
DefaultsApplied(issue) ==
    /\ Get(nz_issue_data, "key", Absent) \in {Absent, JNull} => issue.key = Str_UNKNOWN
    /\ Missing("summary") => issue.summary = Str_NoSummary
    /\ Missing("issuetype") => issue.type = Str_Task
    /\ Missing("status") => issue.status = Str_Unknown
    /\ Missing("priority") => issue.priority = Str_None
    /\ Missing("assignee") => issue.assignee = Str_Unassigned
    /\ Missing("reporter") => issue.reporter = Str_Unknown
    /\ Missing("labels") => issue.labels = <<>>
    /\ Missing("components") => issue.components = <<>>
    /\ Missing("created") => issue.created_at = Str_Unknown
    /\ Missing("updated") => issue.updated_at = Str_Unknown
    /\ Missing("description") => issue.description_text = <<>>
    /\ Missing("issuelinks") => issue.links = <<>>

\* The person objects of the payload at work hold no null.
PersonsWithoutNull ==
    \A name \in {"assignee", "reporter"} :
        RawField(name).t = "obj" => \A m \in DOMAIN RawField(name).v : RawField(name).v[m] # JNull

\* C11: for every payload in which key, fields and each field inside fields
\* is absent, null or well-formed, normalize returns a record without raising
\* and every absent or null input is replaced by its documented default.
C11_NullSafe ==
    (NormalizeEnded /\ PersonsWithoutNull) =>
        pc = "done" /\ nz_result.ok /\ DefaultsApplied(nz_result.issue)

\* The part of C11 the code keeps: a payload whose names are absent or
\* well-formed, none null, is normalized with its defaults.
C11_AbsentNames ==
    (/\ NormalizeEnded
     /\ PersonsWithoutNull
     /\ Get(nz_issue_data, "key", Absent) # JNull
     /\ Get(nz_issue_data, "fields", Absent) # JNull
     /\ \A name \in FieldNames : RawField(name) # JNull)
        => pc = "done" /\ nz_result.ok /\ DefaultsApplied(nz_result.issue)

\* The person object holds a string under the name.
HasString(person_obj, name) ==
    person_obj.t = "obj" /\ name \in DOMAIN person_obj.v /\ person_obj.v[name].t = "str"

\* The name C12 gives a person: the display name when it has one, else the
\* email address when it has one, else the default.
ClaimedPersonName(person_obj, default) ==
    IF HasString(person_obj, "displayName") THEN person_obj.v["displayName"].v
    ELSE IF HasString(person_obj, "emailAddress") THEN person_obj.v["emailAddress"].v
    ELSE default

\* Every name of the payload at work but assignee and reporter holds its
\* well-formed value.
OnlyPersonsDeviate ==
    /\ Get(nz_issue_data, "key", Absent) = WellFormed["key"]
    /\ Get(nz_issue_data, "fields", Absent).t = "obj"
    /\ \A name \in FieldNames \ {"assignee", "reporter"} : RawField(name) = WellFormed[name]

\* C12: the assignee of the record is the person object's display name when
\* it has one, else its email address when it has one, else "Unassigned", the
\* reporter likewise with default "Unknown"; a missing person object, or one
\* whose display name is null, yields the default and never makes normalize
\* raise.
C12_PersonResolution ==
    (NormalizeEnded /\ OnlyPersonsDeviate) =>
        /\ pc = "done" /\ nz_result.ok
        /\ nz_result.issue.assignee = ClaimedPersonName(RawField("assignee"), Str_Unassigned)
        /\ nz_result.issue.reporter = ClaimedPersonName(RawField("reporter"), Str_Unknown)

\* The part of C12 the code keeps: person objects that hold no null.
C12_PersonsWithoutNull ==
    (NormalizeEnded /\ OnlyPersonsDeviate /\ PersonsWithoutNull) =>
        /\ pc = "done" /\ nz_result.ok
        /\ nz_result.issue.assignee = ClaimedPersonName(RawField("assignee"), Str_Unassigned)
        /\ nz_result.issue.reporter = ClaimedPersonName(RawField("reporter"), Str_Unknown)

\* ---------------------------------------------------------------- C17, C18
\* C17: the limit is the most issues fetched and only None means all: with
\* limit = 0, search_all_issues and fetch_batch return no issues.
C17_LimitZero ==
    (entry \in {"search_all_issues", "fetch_batch"} /\ pc = "done" /\ limit = Some(0)) =>
        issues_data = <<>> /\ normalized_issues = <<>>

\* The same for the command: fetch --jql ... --limit 0 fetches no issue.
C17_LimitZeroCommand ==
    (JqlMode /\ opts.limit = 0 /\ pc = "exit") => issues = <<>> /\ wlog = <<>>

\* The batch of the command has nothing to process: --jql with an empty
\* list from fetch_batch (the Exit(0) of line 213 is raised), --file with a
\* file that was read and holds no issue key (line 175).
NothingToProcess ==
    \/ JqlMode /\ exc = "Exit(0)"
    \/ FileMode /\ file_read /\ issue_keys = <<>>

\* C18: when a batch has nothing to process the command ends with exit
\* status 0 and writes no file.
C18_EmptyBatchExitZero ==
    (pc = "exit" /\ NothingToProcess) => exit_code = Some(0) /\ files = files0 /\ wlog = <<>>

\* What the code does instead: it ends with status 1, and writes no file.
C18_EmptyBatchExitOne ==
    (pc = "exit" /\ NothingToProcess) => exit_code = Some(1) /\ files = files0 /\ wlog = <<>>

====
